---- MODULE Spec2Model ----
(***************************************************************************)
(* Model of the audio analyzer backend (src/main.py): the key estimator,   *)
(* the loudness estimator, the duration utilities and the temporary-file   *)
(* life cycle of the /analyze endpoint.                                    *)
(*                                                                         *)
(* Numbers.  The code computes in IEEE doubles; the model computes the     *)
(* same expressions exactly, as fractions of integers, and keeps NaN as a  *)
(* value of its own so that Python's min/max (which let NaN through) are   *)
(* modelled as they behave.                                                *)
(***************************************************************************)
EXTENDS Integers, Sequences, FiniteSets, TLC

VARIABLES
    pc,                 \* which call is pending / finished
    chroma,             \* estimate_key: the chromagram, a sequence of 12-bin frames
    key,                \* estimate_key: returned label
    key_confidence,     \* estimate_key: returned confidence
    y,                  \* calculate_lufs: sample buffer
    sr,                 \* calculate_lufs / get_duration: sample rate
    loudness_lufs,      \* calculate_lufs: returned value
    n_samples,          \* get_duration: y.shape[0]
    duration,           \* get_duration's result / format_duration's argument
    duration_formatted, \* format_duration: returned string, as characters
    temp_path,          \* analyze_audio: local temp_path
    temp_file,          \* analyze_audio: name of the file NamedTemporaryFile made
    files,              \* the temporary files that exist on disk
    request,            \* number of the request being served
    status              \* HTTP status of the request being served

reqVars == <<temp_path, temp_file, files, request, status>>
notKey == <<y, loudness_lufs, n_samples, duration, duration_formatted,
            temp_path, temp_file, files, request, status>>
notLufs == <<chroma, key, key_confidence, n_samples, duration, duration_formatted,
             temp_path, temp_file, files, request, status>>
notDur == <<chroma, key, key_confidence, y, loudness_lufs,
            temp_path, temp_file, files, request, status>>
notReq == <<chroma, key, key_confidence, y, loudness_lufs,
            n_samples, duration, duration_formatted, sr>>
vars == <<pc, chroma, key, key_confidence, y, sr, loudness_lufs, n_samples,
          duration, duration_formatted, temp_path, temp_file, files, request, status>>

----------------------------------------------------------------------------
(* Bounds of the model *)

MaxFrames == 2
MaxScale == 2
MaxSamples == 4
MaxCount == 6100
MaxRequests == 3

----------------------------------------------------------------------------
(* Exact arithmetic with the epsilon of the confidence ratios.             *)
(* A "big" number <<h, l>> stands for h * EpsInv + l; a value is           *)
(* [nan, num, den] with num and den big and den > 0, standing for          *)
(* num / den, or for NaN when nan is TRUE.                                 *)

EpsInv == 1000000

BigNorm(b) == <<b[1] + (b[2] \div EpsInv), b[2] % EpsInv>>

BigLess(a, b) ==
    LET na == BigNorm(a)
        nb == BigNorm(b)
    IN  na[1] < nb[1] \/ (na[1] = nb[1] /\ na[2] < nb[2])

BigScale(c, b) == <<c * b[1], c * b[2]>>

BigIsZero(b) == BigNorm(b) = <<0, 0>>

NaN == [nan |-> TRUE, num |-> <<0, 0>>, den |-> <<0, 1>>]

FromInt(c) == [nan |-> FALSE, num |-> <<0, c>>, den |-> <<0, 1>>]

\* float division num / den: 0/0 is NaN (numpy warns and continues)
FDiv(num, den) ==
    IF BigIsZero(den) THEN NaN ELSE [nan |-> FALSE, num |-> num, den |-> den]

\* x < c and x > c for an integer c; every comparison with NaN is False
FLessInt(x, c) == ~x.nan /\ BigLess(x.num, BigScale(c, x.den))
FGreaterInt(x, c) == ~x.nan /\ BigLess(BigScale(c, x.den), x.num)
FEqualsInt(x, c) == ~x.nan /\ ~FLessInt(x, c) /\ ~FGreaterInt(x, c)

\* Python's max(x, c) and min(x, c): the first argument is kept unless the
\* second compares greater (smaller), so a NaN first argument is returned.
py_max(x, c) == IF FLessInt(x, c) THEN FromInt(c) ELSE x
py_min(x, c) == IF FGreaterInt(x, c) THEN FromInt(c) ELSE x

----------------------------------------------------------------------------
(* estimate_key, src/main.py 113-214 *)

PitchClasses == 0 .. 11

key_names == <<"C", "C#", "D", "D#", "E", "F", "F#", "G", "G#", "A", "A#", "B">>

\* the templates in tenths: 1.0, 0.0, 0.3, ... are 10, 0, 3, ...
major_template == <<10, 0, 3, 0, 6, 4, 0, 8, 0, 4, 0, 2>>
minor_template == <<10, 0, 3, 6, 0, 4, 0, 8, 4, 0, 4, 0>>

\* np.roll(t, i)[j] = t[(j - i) mod 12]
RollLeft(t, i) == [j \in PitchClasses |-> t[((j + i) % 12) + 1]]
Roll(t, i) == [j \in PitchClasses |-> t[((j - i) % 12) + 1]]

RECURSIVE SumUpTo(_, _)
SumUpTo(f, n) == IF n < 0 THEN 0 ELSE f[n] + SumUpTo(f, n - 1)

\* np.correlate(a, v)[0] of two 12-vectors (mode "valid"): their inner product
Correlate(a, v) == SumUpTo([j \in PitchClasses |-> a[j] * v[j]], 11)

RECURSIVE RowSum(_, _, _)
RowSum(c, p, t) == IF t = 0 THEN 0 ELSE c[t][p] + RowSum(c, p, t - 1)

\* np.mean(chroma, axis=1): the row sums over the frame count T; NaN for T = 0
chroma_avg(c) ==
    [nan |-> Len(c) = 0,
     v |-> [p \in PitchClasses |-> RowSum(c, p, Len(c))],
     d |-> IF Len(c) = 0 THEN 1 ELSE Len(c)]

MaxOf(S) == CHOOSE m \in S : \A x \in S : x <= m

\* librosa.util.normalize(v) with norm=inf: divide by max |v|, a vector of
\* length below the smallest normal float (here: zero) is left as it is.
\* (v/d) / (max/d) = v / max.  Raises ParameterError on a non-finite input.
chroma_norm(avg) ==
    LET length == MaxOf({avg.v[p] : p \in PitchClasses})
    IN  [raised |-> avg.nan,
         v |-> avg.v,
         d |-> IF length = 0 THEN avg.d ELSE length]

\* lines 164-168: numerators of the 12 scores of a template; every score has
\* the denominator 10 * norm.d
Corr(template, norm) ==
    [i \in PitchClasses |-> Correlate(norm.v, Roll(template, i))]

ScoreDen(norm) == 10 * norm.d

\* np.argmax: the first index of the maximum
ArgMax(corr) ==
    CHOOSE i \in PitchClasses :
        /\ \A j \in PitchClasses : corr[j] <= corr[i]
        /\ \A j \in PitchClasses : j < i => corr[j] < corr[i]

\* lines 177-180: the maximum once the best entry is set to -inf
SecondMax(corr) == MaxOf({corr[j] : j \in PitchClasses \ {ArgMax(corr)}})

\* line 189: (best + 1) / 2, best = s / d
abs_conf(s, d) == [n |-> s + d, d |-> 2 * d]

\* lines 190-191: (best - other) / (best + 1e-6) with best = s/d, other = o/d:
\* (s - o) * EpsInv / (s * EpsInv + d)
RatioNoEps(s, o, d) == FDiv(<<0, s - o>>, <<0, s>>)
Ratio(s, o, d) == FDiv(<<s - o, 0>>, <<s, d>>)

\* line 192: (abs_conf * 0.4 + rel_conf * 0.4 + mode_conf * 0.2) * 100
\*   = 40 a.n / a.d + (40 rel.num + 20 mode.num) / rel.den,
\* rel and mode having the same denominator (max(best, other) = best)
Blend(a, rel, mode) ==
    IF rel.nan \/ mode.nan THEN NaN
    ELSE LET ratio == <<40 * rel.num[1] + 20 * mode.num[1],
                        40 * rel.num[2] + 20 * mode.num[2]>>
         IN  [nan |-> FALSE,
              num |-> <<40 * a.n * rel.den[1] + a.d * ratio[1],
                        40 * a.n * rel.den[2] + a.d * ratio[2]>>,
              den |-> BigScale(a.d, rel.den)]

\* line 209: float(min(max(confidence, 0.0), 100.0))
ClampConfidence(c) == py_min(py_max(c, 0), 100)

\* lines 170-198 for the winning mode: s best, s2 second best of the same
\* mode, o best of the other mode
RawConfidence(s, s2, o, d) ==
    Blend(abs_conf(s, d), Ratio(s, s2, d), Ratio(s, o, d))

estimate_key(c) ==
    LET norm == chroma_norm(chroma_avg(c))
        major_corr == Corr(major_template, norm)
        minor_corr == Corr(minor_template, norm)
        major_max_idx == ArgMax(major_corr)
        minor_max_idx == ArgMax(minor_corr)
        major_max_val == major_corr[major_max_idx]
        minor_max_val == minor_corr[minor_max_idx]
        d == ScoreDen(norm)
    IN  IF norm.raised
        THEN [key |-> "Unknown", confidence |-> FromInt(0)]
        ELSE IF major_max_val >= minor_max_val
        THEN [key |-> key_names[major_max_idx + 1],
              confidence |-> ClampConfidence(
                  RawConfidence(major_max_val, SecondMax(major_corr), minor_max_val, d))]
        ELSE [key |-> key_names[minor_max_idx + 1] \o "m",
              confidence |-> ClampConfidence(
                  RawConfidence(minor_max_val, SecondMax(minor_corr), major_max_val, d))]

\* the best template score of the winning mode, as numerator and denominator
BestScore(c) ==
    LET norm == chroma_norm(chroma_avg(c))
        major_max_val == MaxOf({Corr(major_template, norm)[i] : i \in PitchClasses})
        minor_max_val == MaxOf({Corr(minor_template, norm)[i] : i \in PitchClasses})
    IN  [n |-> IF major_max_val >= minor_max_val THEN major_max_val ELSE minor_max_val,
         d |-> ScoreDen(norm)]

----------------------------------------------------------------------------
(* Chromagrams the key estimator is run on *)

ZeroFrame == [p \in PitchClasses |-> 0]

\* a frame in which the pitch classes of N sound with unit energy
NoteFrame(N) == [p \in PitchClasses |-> IF p \in N THEN 10 ELSE 0]

\* a frame proportional (factor k) to a template placed on root r: the
\* weight of the degree n semitones above the root goes to pitch class r + n
TemplateFrame(template, r, k) ==
    [p \in PitchClasses |->
        k * template[(CHOOSE n \in PitchClasses : (r + n) % 12 = p) + 1]]

TemplateChroma(template, r) ==
    UNION {{[t \in 1 .. T |-> TemplateFrame(template, r, ks[t])] :
                ks \in [1 .. T -> 1 .. MaxScale]} : T \in 1 .. MaxFrames}

ChromaInputs ==
    {<<>>}
    \cup {<<NoteFrame(N)>> : N \in SUBSET PitchClasses}
    \cup {[t \in 1 .. T |-> ZeroFrame] : T \in 1 .. MaxFrames}
    \cup UNION {TemplateChroma(major_template, r) : r \in PitchClasses}
    \cup UNION {TemplateChroma(minor_template, r) : r \in PitchClasses}

KeyInit ==
    /\ pc = "key_input"
    /\ sr = 0
    /\ chroma \in ChromaInputs
    /\ key = ""
    /\ key_confidence = FromInt(0)
    /\ y = <<>>
    /\ loudness_lufs = FromInt(0)
    /\ n_samples = 0
    /\ duration = FromInt(0)
    /\ duration_formatted = <<>>
    /\ temp_path = "None"
    /\ temp_file = "None"
    /\ files = {}
    /\ request = 0
    /\ status = 0

EstimateKey ==
    /\ pc = "key_input"
    /\ pc' = "key_done"
    /\ key' = estimate_key(chroma).key
    /\ key_confidence' = estimate_key(chroma).confidence
    /\ UNCHANGED <<chroma, sr>>
    /\ UNCHANGED notKey

----------------------------------------------------------------------------
(* calculate_lufs, src/main.py 216-287.  Loudness values are in hundredths *)
(* of a dB.                                                                *)

SilenceFloor == -7000
ScaleOffset == 1000

\* Sample levels: the amplitudes 0, 0.0002, 0.0006, 0.1 and 4.0, and NaN.
\* A sample enters the computation only as y**2; Energy is y**2 in units of
\* 4e-8.
SampleLevels == {"silent", "quiet", "soft", "mid", "hot", "nan"}

Energy(s) ==
    CASE s = "silent" -> 0
      [] s = "quiet" -> 1
      [] s = "soft" -> 9
      [] s = "mid" -> 250000
      [] s = "hot" -> 400000000

RECURSIVE SumEnergy(_, _)
SumEnergy(b, n) == IF n = 0 THEN 0 ELSE Energy(b[n]) + SumEnergy(b, n - 1)

\* 20 * log10(rms + 1e-8), rounded to 0.01 dB, for rms = sqrt(k * 2e-8):
\* k is twice the mean of y**2 in the Energy unit
DbTable(k) ==
    CASE k = 0 -> -16000
      [] k = 1 -> -7699
      [] k = 2 -> -7398
      [] k = 9 -> -6745
      [] k = 10 -> -6699
      [] k = 18 -> -6444
      [] k = 250000 -> -2301
      [] k = 250001 -> -2301
      [] k = 250009 -> -2301
      [] k = 500000 -> -2000
      [] k = 400000000 -> 903
      [] k = 400000001 -> 903
      [] k = 400000009 -> 903
      [] k = 400250000 -> 903
      [] k = 800000000 -> 1204

\* lines 238-239 and 248-252: np.sqrt(np.mean(b**2)) and 20 * np.log10(rms + 1e-8)
\* of a block of one or two samples; NaN when a sample is NaN
Db(b) ==
    IF \E i \in 1 .. Len(b) : b[i] = "nan"
    THEN [nan |-> TRUE, cdb |-> 0]
    ELSE [nan |-> FALSE, cdb |-> DbTable((2 * SumEnergy(b, Len(b))) \div Len(b))]

\* int(x) truncates towards zero
IntTrunc(a, b) == IF a >= 0 THEN a \div b ELSE -((-a) \div b)

\* line 231: int(0.4 * sr); line 232: block_length // 2
block_length(s) == IntTrunc(4 * s, 10)
hop_length(s) == block_length(s) \div 2

\* librosa.util.frame(y, frame_length, hop_length): complete blocks only
Frame(yy, fl, hop) ==
    [k \in 1 .. (1 + (Len(yy) - fl) \div hop) |->
        SubSeq(yy, (k - 1) * hop + 1, (k - 1) * hop + fl)]

block_db(yy, s) ==
    LET blocks == Frame(yy, block_length(s), hop_length(s))
    IN  [k \in 1 .. Len(blocks) |-> Db(blocks[k])]

RECURSIVE SumDb(_, _, _)
SumDb(db, S, n) ==
    IF n = 0 THEN 0
    ELSE (IF n \in S THEN db[n].cdb ELSE 0) + SumDb(db, S, n - 1)

\* lines 241 and 280: max(min(x, 0.0), -70.0)
ClampLufsUpperOnly(x) == py_min(x, 0)
ClampLufs(x) == py_max(py_min(x, 0), SilenceFloor)

\* a loudness: the mean of the blocks of S, minus 10
MeanMinusOffset(db, S) ==
    [nan |-> FALSE,
     num |-> <<0, SumDb(db, S, Len(db)) - ScaleOffset * Cardinality(S)>>,
     den |-> <<0, Cardinality(S)>>]

\* line 256: block_db > -70 (False for a NaN block)
valid_blocks(db) == {k \in 1 .. Len(db) : ~db[k].nan /\ db[k].cdb > SilenceFloor}

\* lines 265-270: block_db > np.mean(valid_db) - 10, over all the blocks;
\* db[k] > sum/n - 10 is db[k] * n > sum - 10 n
final_blocks_mean_of_all(db, valid) ==
    LET all == {k \in 1 .. Len(db) : ~db[k].nan}
    IN  {k \in all : db[k].cdb * Cardinality(all)
                        > SumDb(db, all, Len(db)) - ScaleOffset * Cardinality(all)}
final_blocks(db, valid) ==
    {k \in 1 .. Len(db) :
        /\ ~db[k].nan
        /\ db[k].cdb * Cardinality(valid)
              > SumDb(db, valid, Len(db)) - ScaleOffset * Cardinality(valid)}

\* lines 255-283
GatedLoudness(db) ==
    LET valid == valid_blocks(db)
        final == final_blocks(db, valid)
    IN  IF valid = {} THEN FromInt(SilenceFloor)
        ELSE IF final = {} THEN FromInt(SilenceFloor)
        ELSE ClampLufs(MeanMinusOffset(db, final))

\* lines 238-241: the whole-signal fallback
FallbackLoudness(yy) ==
    LET loudness == Db(yy)
    IN  IF loudness.nan THEN ClampLufs(NaN)
        ELSE ClampLufs([nan |-> FALSE,
                        num |-> <<0, loudness.cdb - ScaleOffset>>,
                        den |-> <<0, 1>>])

\* librosa.util.frame raises ParameterError for hop_length < 1; the handler
\* of lines 285-287 returns -70.0
calculate_lufs(yy, s) ==
    IF Len(yy) = 0 THEN FromInt(SilenceFloor)
    ELSE IF Len(yy) < block_length(s) THEN FallbackLoudness(yy)
    ELSE IF hop_length(s) < 1 THEN FromInt(SilenceFloor)
    ELSE GatedLoudness(block_db(yy, s))

\* Sample rates: negative, zero, too low for a hop of one sample (2, 4), and
\* two with a block of two samples and a hop of one (5, 7)
SampleRates == {-5, 0, 2, 4, 5, 7}

RECURSIVE SeqsUpTo(_, _)
SeqsUpTo(S, n) ==
    IF n = 0 THEN {<<>>}
    ELSE LET shorter == SeqsUpTo(S, n - 1)
         IN  shorter \cup {Append(q, x) : q \in {r \in shorter : Len(r) = n - 1}, x \in S}

LufsInit ==
    /\ pc = "lufs_input"
    /\ y \in SeqsUpTo(SampleLevels, MaxSamples)
    /\ sr \in SampleRates
    /\ chroma = <<>>
    /\ key = ""
    /\ key_confidence = FromInt(0)
    /\ loudness_lufs = FromInt(0)
    /\ n_samples = 0
    /\ duration = FromInt(0)
    /\ duration_formatted = <<>>
    /\ temp_path = "None"
    /\ temp_file = "None"
    /\ files = {}
    /\ request = 0
    /\ status = 0

CalculateLufs ==
    /\ pc = "lufs_input"
    /\ pc' = "lufs_done"
    /\ loudness_lufs' = calculate_lufs(y, sr)
    /\ UNCHANGED <<y, sr>>
    /\ UNCHANGED notLufs

----------------------------------------------------------------------------
(* get_duration and format_duration, src/main.py 75-111 *)

\* lines 78-91: 0.0 for sr <= 0, else n_samples / sr (never NaN or negative
\* for a sample count)
get_duration(n, s) ==
    IF s <= 0 THEN FromInt(0)
    ELSE [nan |-> FALSE, num |-> <<0, n>>, den |-> <<0, s>>]

\* int(x) of a non-negative x
Truncate(x) == x.num[2] \div x.den[2]

\* line 105: int(round(x)) of a non-negative x; Python rounds a tie to the
\* even neighbour
RoundHalfEven(x) ==
    LET q == x.num[2] \div x.den[2]
        r == x.num[2] % x.den[2]
    IN  IF 2 * r < x.den[2] THEN q
        ELSE IF 2 * r > x.den[2] THEN q + 1
        ELSE IF q % 2 = 0 THEN q ELSE q + 1

DigitChar(n) == <<"0", "1", "2", "3", "4", "5", "6", "7", "8", "9">>[n + 1]

RECURSIVE Digits(_)
Digits(n) == IF n < 10 THEN <<DigitChar(n)>> ELSE Digits(n \div 10) \o <<DigitChar(n % 10)>>

\* the format specification 02d of a non-negative integer
Format02d(n) == IF n < 10 THEN <<"0">> \o Digits(n) ELSE Digits(n)

\* line 106: total_seconds // 60
MinutesWrapped(total_seconds) == (total_seconds \div 60) % 60
Minutes(total_seconds) == total_seconds \div 60

\* lines 98-111, the string as its characters
format_duration(seconds) ==
    IF seconds.nan \/ FLessInt(seconds, 0)
    THEN <<"0", "0", ":", "0", "0">>
    ELSE LET total_seconds == RoundHalfEven(seconds)
             minutes == Minutes(total_seconds)
             remaining_seconds == total_seconds % 60
         IN  Format02d(minutes) \o <<":">> \o Format02d(remaining_seconds)

DurationRates == {-1, 0, 1, 2, 5}

\* NaN and negative arguments of format_duration
RawSeconds ==
    {NaN} \cup {[nan |-> FALSE, num |-> <<0, -k>>, den |-> <<0, d>>] :
                    k \in {1, 3, 120}, d \in {1, 2}}

DurInit ==
    /\ pc = "dur_input"
    /\ sr \in DurationRates
    /\ n_samples = 0
    /\ duration = FromInt(0)
    /\ duration_formatted = <<>>
    /\ chroma = <<>>
    /\ key = ""
    /\ key_confidence = FromInt(0)
    /\ y = <<>>
    /\ loudness_lufs = FromInt(0)
    /\ temp_path = "None"
    /\ temp_file = "None"
    /\ files = {}
    /\ request = 0
    /\ status = 0

\* duration and its formatting for the buffer as it is
Measure ==
    /\ pc = "dur_input"
    /\ pc' = "dur_done"
    /\ duration' = get_duration(n_samples, sr)
    /\ duration_formatted' = format_duration(get_duration(n_samples, sr))
    /\ UNCHANGED <<n_samples, sr>>
    /\ UNCHANGED notDur

\* the same for a buffer one sample longer
AppendSample ==
    /\ pc = "dur_done"
    /\ n_samples < MaxCount
    /\ n_samples' = n_samples + 1
    /\ duration' = get_duration(n_samples + 1, sr)
    /\ duration_formatted' = format_duration(get_duration(n_samples + 1, sr))
    /\ UNCHANGED <<pc, sr>>
    /\ UNCHANGED notDur

\* format_duration called on a value that is no duration
FormatRaw ==
    /\ pc = "dur_input"
    /\ pc' = "raw_done"
    /\ \E x \in RawSeconds :
          /\ duration' = x
          /\ duration_formatted' = format_duration(x)
    /\ UNCHANGED <<n_samples, sr>>
    /\ UNCHANGED notDur

----------------------------------------------------------------------------
(* analyze_audio, src/main.py 289-373: the temporary file *)

TempName(r) == "tmp" \o ToString(r)

ReqInit ==
    /\ pc = "idle"
    /\ sr = 0
    /\ temp_path = "None"
    /\ temp_file = "None"
    /\ files = {}
    /\ request = 0
    /\ status = 0
    /\ chroma = <<>>
    /\ key = ""
    /\ key_confidence = FromInt(0)
    /\ y = <<>>
    /\ loudness_lufs = FromInt(0)
    /\ n_samples = 0
    /\ duration = FromInt(0)
    /\ duration_formatted = <<>>

\* lines 291-302: the filename and MIME checks raise 400 before the try
Receive ==
    /\ pc \in {"idle", "responded"}
    /\ request < MaxRequests
    /\ request' = request + 1
    /\ temp_path' = "None"
    /\ temp_file' = "None"
    /\ \E accepted \in BOOLEAN :
          IF accepted
          THEN pc' = "open_temp" /\ status' = 0
          ELSE pc' = "responded" /\ status' = 400
    /\ UNCHANGED files
    /\ UNCHANGED notReq

\* line 305: NamedTemporaryFile(delete=False) creates the file
OpenTemp ==
    /\ pc = "open_temp"
    /\ temp_file' = TempName(request)
    /\ files' = files \cup {TempName(request)}
    /\ pc' = "read"
    /\ UNCHANGED <<temp_path, request, status>>
    /\ UNCHANGED notReq

OpenTempFails ==
    /\ pc = "open_temp"
    /\ pc' = "upload_error"
    /\ UNCHANGED reqVars
    /\ UNCHANGED notReq

\* line 306: content = await file.read()
ReadUpload ==
    /\ pc = "read"
    /\ pc' = "write"
    /\ UNCHANGED reqVars
    /\ UNCHANGED notReq

ReadUploadFails ==
    /\ pc = "read"
    /\ pc' = "upload_error"
    /\ UNCHANGED reqVars
    /\ UNCHANGED notReq

\* line 307: temp_file.write(content)
WriteBytes ==
    /\ pc = "write"
    /\ pc' = "assign"
    /\ UNCHANGED reqVars
    /\ UNCHANGED notReq

WriteBytesFails ==
    /\ pc = "write"
    /\ pc' = "upload_error"
    /\ UNCHANGED reqVars
    /\ UNCHANGED notReq

\* line 308: temp_path = temp_file.name
AssignPath ==
    /\ pc = "assign"
    /\ temp_path' = temp_file
    /\ pc' = "load"
    /\ UNCHANGED <<temp_file, files, request, status>>
    /\ UNCHANGED notReq

\* lines 314-316: librosa.load, and ValueError for an empty signal
LoadAudio ==
    /\ pc = "load"
    /\ pc' = "features"
    /\ UNCHANGED reqVars
    /\ UNCHANGED notReq

LoadAudioFails ==
    /\ pc = "load"
    /\ pc' = "analysis_error"
    /\ UNCHANGED reqVars
    /\ UNCHANGED notReq

\* lines 328-339: beat_track may raise; estimate_key and calculate_lufs
\* catch their own exceptions
ExtractFeatures ==
    /\ pc = "features"
    /\ pc' = "metadata"
    /\ UNCHANGED reqVars
    /\ UNCHANGED notReq

ExtractFeaturesFails ==
    /\ pc = "features"
    /\ pc' = "analysis_error"
    /\ UNCHANGED reqVars
    /\ UNCHANGED notReq

\* line 344: get_audio_metadata(temp_path)
ReadTags ==
    /\ pc = "metadata"
    /\ pc' = "build"
    /\ UNCHANGED reqVars
    /\ UNCHANGED notReq

ReadTagsFails ==
    /\ pc = "metadata"
    /\ pc' = "analysis_error"
    /\ UNCHANGED reqVars
    /\ UNCHANGED notReq

\* lines 347-356: return AnalysisResult(...)
BuildResult ==
    /\ pc = "build"
    /\ status' = 200
    /\ pc' = "finally"
    /\ UNCHANGED <<temp_path, temp_file, files, request>>
    /\ UNCHANGED notReq

BuildResultFails ==
    /\ pc = "build"
    /\ pc' = "analysis_error"
    /\ UNCHANGED reqVars
    /\ UNCHANGED notReq

\* lines 358-360: the inner handler raises HTTPException(500), which the
\* outer handler of lines 362-364 catches and raises again
AnalysisError ==
    /\ pc = "analysis_error"
    /\ pc' = "upload_error"
    /\ UNCHANGED reqVars
    /\ UNCHANGED notReq

\* lines 362-364
UploadError ==
    /\ pc = "upload_error"
    /\ status' = 500
    /\ pc' = "finally"
    /\ UNCHANGED <<temp_path, temp_file, files, request>>
    /\ UNCHANGED notReq

\* lines 366-371: if temp_path and os.path.exists(temp_path): os.unlink(temp_path)
Cleanup ==
    /\ pc = "finally"
    /\ files' = IF temp_path # "None" /\ temp_path \in files
                THEN files \ {temp_path}
                ELSE files
    /\ pc' = "responded"
    /\ UNCHANGED <<temp_path, temp_file, request, status>>
    /\ UNCHANGED notReq

\* lines 372-373: os.unlink raised; the error is logged and dropped
CleanupFails ==
    /\ pc = "finally"
    /\ temp_path # "None"
    /\ temp_path \in files
    /\ pc' = "responded"
    /\ UNCHANGED reqVars
    /\ UNCHANGED notReq


KeyNext == EstimateKey

SpecKey == KeyInit /\ [][KeyNext]_vars

LufsNext == CalculateLufs

SpecLufs == LufsInit /\ [][LufsNext]_vars

DurNext == Measure \/ AppendSample \/ FormatRaw

SpecDur == DurInit /\ [][DurNext]_vars

ReqNext ==
    \/ Receive
    \/ OpenTemp \/ OpenTempFails
    \/ ReadUpload \/ ReadUploadFails
    \/ WriteBytes \/ WriteBytesFails
    \/ AssignPath
    \/ LoadAudio \/ LoadAudioFails
    \/ ExtractFeatures \/ ExtractFeaturesFails
    \/ ReadTags \/ ReadTagsFails
    \/ BuildResult \/ BuildResultFails
    \/ AnalysisError
    \/ UploadError
    \/ Cleanup \/ CleanupFails

SpecReq == ReqInit /\ [][ReqNext]_vars

----------------------------------------------------------------------------
(* Claims about estimate_key *)

IsZeroChroma(c) == \A t \in 1 .. Len(c) : c[t] = ZeroFrame

KeyLabels ==
    {key_names[i] : i \in 1 .. 12} \cup {key_names[i] \o "m" : i \in 1 .. 12}
    \cup {"Unknown"}

\* C1: for every chromagram with at least one frame of finite non-negative
\* values the returned confidence is a number (not NaN) in [0, 100] and the
\* label is one of the 24 key names or the unknown sentinel.
C1_ConfidenceAndLabelInRange ==
    (pc = "key_done" /\ Len(chroma) >= 1) =>
        /\ ~key_confidence.nan
        /\ ~FLessInt(key_confidence, 0)
        /\ ~FGreaterInt(key_confidence, 100)
        /\ key \in KeyLabels

\* the blend exceeds 100 before the clamp and the clamp brings it to 100
C1_Witness ==
    /\ pc = "key_done"
    /\ Len(chroma) >= 1
    /\ FEqualsInt(key_confidence, 100)
    /\ key = "Cm"

\* C2: an all-zero chromagram yields confidence exactly 0.0 with the unknown
\* label or the degenerate-tie default root.
C2_ZeroChromaZeroConfidence ==
    (pc = "key_done" /\ Len(chroma) >= 1 /\ IsZeroChroma(chroma)) =>
        /\ FEqualsInt(key_confidence, 0)
        /\ key \in {"Unknown", key_names[1]}

\* C3: a chromagram whose time average is proportional to a template rotated
\* to root r is labelled with root r: the bare name for major, name + "m"
\* for minor.
IsTemplateChroma(c, template, r) ==
    /\ Len(c) >= 1
    /\ \A t \in 1 .. Len(c) :
          \E k \in 1 .. MaxScale : c[t] = TemplateFrame(template, r, k)

C3_TemplateYieldsItsRoot ==
    pc = "key_done" =>
        \A r \in PitchClasses :
            /\ IsTemplateChroma(chroma, major_template, r) => key = key_names[r + 1]
            /\ IsTemplateChroma(chroma, minor_template, r)
                  => key = key_names[r + 1] \o "m"

\* two frames of different strength, both the minor template on A
C3_Witness ==
    /\ pc = "key_done"
    /\ Len(chroma) = 2
    /\ chroma[1] # chroma[2]
    /\ IsTemplateChroma(chroma, minor_template, 9)
    /\ key = "Am"

\* C9: the best template score of the winning mode lies in [-1, 1].
C9_BestScoreWithinUnit ==
    (pc = "key_done" /\ Len(chroma) >= 1) =>
        /\ -BestScore(chroma).d <= BestScore(chroma).n
        /\ BestScore(chroma).n <= BestScore(chroma).d

----------------------------------------------------------------------------
(* Claims about calculate_lufs *)

AllSilent(yy) == \A i \in 1 .. Len(yy) : yy[i] = "silent"

\* equality of two loudness values num/den
SameValue(a, b) ==
    /\ a.nan = b.nan
    /\ ~a.nan => a.num[2] * b.den[2] = b.num[2] * a.den[2]

\* C4: for every buffer and every sample rate > 0 the returned value v
\* satisfies -70.0 <= v <= 0.0, on the block-gated and on the fallback path.
C4_LoudnessInRange ==
    (pc = "lufs_done" /\ sr > 0) =>
        /\ ~loudness_lufs.nan
        /\ ~FLessInt(loudness_lufs, SilenceFloor)
        /\ ~FGreaterInt(loudness_lufs, 0)

\* the range does hold for every buffer without a NaN sample
C4_InRangeWithoutNaN ==
    (pc = "lufs_done" /\ sr > 0 /\ \A i \in 1 .. Len(y) : y[i] # "nan") =>
        /\ ~loudness_lufs.nan
        /\ ~FLessInt(loudness_lufs, SilenceFloor)
        /\ ~FGreaterInt(loudness_lufs, 0)

\* C5: the silence floor -70.0 is returned whenever the buffer is empty, the
\* sample rate is zero or negative, or every sample is zero.
C5_SilenceFloor ==
    (pc = "lufs_done" /\ (Len(y) = 0 \/ sr <= 0 \/ AllSilent(y))) =>
        FEqualsInt(loudness_lufs, SilenceFloor)

\* silence through the fallback: -160 - 10 is clamped up to the floor
C5_Witness ==
    /\ pc = "lufs_done"
    /\ y = <<"silent">>
    /\ sr = 5
    /\ Len(y) < block_length(sr)
    /\ FEqualsInt(loudness_lufs, SilenceFloor)

\* the two-stage gate as the specification states it: the relative gate is
\* applied to the survivors of the absolute gate
TwoStageGated(db) ==
    LET survivors == {k \in 1 .. Len(db) : ~db[k].nan /\ db[k].cdb > -7000}
        kept == {k \in survivors :
                    db[k].cdb * Cardinality(survivors)
                        > SumDb(db, survivors, Len(db)) - 1000 * Cardinality(survivors)}
    IN  IF survivors = {} \/ kept = {} THEN FromInt(-7000)
        ELSE LET mean10 == [nan |-> FALSE,
                            num |-> <<0, SumDb(db, kept, Len(db)) - 1000 * Cardinality(kept)>>,
                            den |-> <<0, Cardinality(kept)>>]
             IN  IF FLessInt(mean10, -7000) THEN FromInt(-7000)
                 ELSE IF FGreaterInt(mean10, 0) THEN FromInt(0)
                 ELSE mean10

HasFullBlock == Len(y) >= block_length(sr) /\ hop_length(sr) >= 1

\* C8: for every buffer with at least one full block the returned value is
\* the two-stage gated result; a block the absolute gate rejects never
\* changes it.
C8_EqualsTwoStageGate ==
    (pc = "lufs_done" /\ HasFullBlock) =>
        SameValue(loudness_lufs, TwoStageGated(block_db(y, sr)))

\* a block at or below -70 dB passes the code's relative gate
C8_Witness ==
    /\ pc = "lufs_done"
    /\ HasFullBlock
    /\ LET db == block_db(y, sr)
       IN  \E k \in final_blocks(db, valid_blocks(db)) : db[k].cdb <= -7000
    /\ SameValue(loudness_lufs, TwoStageGated(block_db(y, sr)))

----------------------------------------------------------------------------
(* Claims about get_duration and format_duration *)

IsDigit(c) == \E n \in 0 .. 9 : c = DigitChar(n)

DigitValue(c) == CHOOSE n \in 0 .. 9 : c = DigitChar(n)

RECURSIVE ParseNat(_)
ParseNat(ds) ==
    IF Len(ds) = 0 THEN 0
    ELSE 10 * ParseNat(SubSeq(ds, 1, Len(ds) - 1)) + DigitValue(ds[Len(ds)])

\* the fields of "mm:ss": everything before the colon that stands third
\* from the end, and the two characters after it
MinutesField(str) == SubSeq(str, 1, Len(str) - 3)
SecondsField(str) == SubSeq(str, Len(str) - 1, Len(str))

WellFormed(str) ==
    /\ Len(str) >= 5
    /\ str[Len(str) - 2] = ":"
    /\ \A i \in 1 .. Len(str) : i # Len(str) - 2 => IsDigit(str[i])
    /\ ParseNat(SecondsField(str)) <= 59
    /\ Len(str) > 5 => str[1] # "0"

TimeOf(str) == 60 * ParseNat(MinutesField(str)) + ParseNat(SecondsField(str))

\* C6: for finite seconds >= 0 the result is mm:ss with ss two digits in
\* 00..59, mm at least two digits and not capped or wrapped, and 60*mm + ss
\* the whole second nearest to the argument; NaN and negative arguments give
\* "00:00".
C6_FormatDuration ==
    (pc \in {"dur_done", "raw_done"}) =>
        IF duration.nan \/ FLessInt(duration, 0)
        THEN duration_formatted = <<"0", "0", ":", "0", "0">>
        ELSE /\ WellFormed(duration_formatted)
             /\ LET t == TimeOf(duration_formatted)
                    d == duration.num[2] - t * duration.den[2]
                IN  /\ 2 * d <= duration.den[2]
                    /\ -2 * d <= duration.den[2]

\* 125.6 seconds (628 samples at 5 Hz) is formatted "02:06"
C6_Witness ==
    /\ pc = "dur_done"
    /\ sr = 5
    /\ n_samples = 628
    /\ duration_formatted = <<"0", "2", ":", "0", "6">>

\* C7: for a fixed sample rate > 0 the time read from
\* format_duration(get_duration(n, sr)) does not decrease when n grows.
C7_FormattedDurationMonotone ==
    [][(pc = "dur_done" /\ pc' = "dur_done" /\ sr > 0 /\ sr' = sr
            /\ n_samples' >= n_samples)
        => TimeOf(duration_formatted') >= TimeOf(duration_formatted)]_vars

\* past one hour: 3600 samples at 1 Hz read 60:00
C7_Witness ==
    /\ pc = "dur_done"
    /\ sr = 1
    /\ n_samples = 3600
    /\ duration_formatted = <<"6", "0", ":", "0", "0">>

----------------------------------------------------------------------------
(* Claim about analyze_audio *)

\* C10: when an invocation that created a temporary file has finished, the
\* file is gone, whether the invocation returned a result or failed.
C10_TempFileDeleted ==
    (pc = "responded" /\ temp_file # "None") => temp_file \notin files

====
